---- MODULE Spec2Model ----
(***************************************************************************)
(* Session credential cache and authentication gate of the XBRL-US MCP     *)
(* server: SessionAuthMiddleware.on_request (src/src/funcs/middleware.py)  *)
(* and the module-level cache _session_data.                               *)
(*                                                                         *)
(* Every inbound request is an asyncio task running on_request.  A task    *)
(* keeps the event loop until it awaits something that really suspends.    *)
(* _extract_credentials_from_request and _authenticate_user are coroutine  *)
(* functions whose bodies contain no await expression (XBRL(...) is a      *)
(* plain, blocking constructor call), so awaiting them never hands the     *)
(* loop to another task; the only suspension of on_request is              *)
(* `await call_next(context)`.  The variable `running` is the task that    *)
(* holds the event loop (0: the loop is free).                             *)
(*                                                                         *)
(* An XBRL object is a record of what was given to its constructor, its    *)
(* _access_token_expires_at and a serial number telling objects apart;     *)
(* None and an unset context slot are records of the same shape.           *)
(***************************************************************************)
EXTENDS Integers, Sequences, FiniteSets, TLC

\* ------------------------------------------------------------- bounds
NumRequests == 2      \* requests (tasks) in one behaviour
MaxTime == 3          \* the clock time.time() runs from 0 to MaxTime
TokenTTL == 2         \* ticks from a token's issue to its expiry

Req == 1..NumRequests

\* ------------------------------------------------------------- values
NoSession == "<None>" \* _get_session_id returned None (the dict key None)
NoField == "<None>"   \* params.get(name, [None])[0] of a missing parameter
Sessions == {"s1", "s2"}
Keys == Sessions \cup {NoSession}
FieldNames == {"username", "password", "client_id", "client_secret"}

\* Query strings as urllib.parse.parse_qs returns them: parameter name to
\* its first value; a blank value is dropped by parse_qs, so a value that
\* is present is a non-empty string.
NoParams == [n \in {} |-> ""]
CredA == [username |-> "u", password |-> "p", client_id |-> "c", client_secret |-> "s"]
CredB == [username |-> "a:b", password |-> "c", client_id |-> "d", client_secret |-> "e"]
CredC == [username |-> "a", password |-> "b:c", client_id |-> "d", client_secret |-> "e"]
Partial == [username |-> "u", password |-> "p"]
Foreign == [other |-> "1"]
ParamPool == {NoParams, CredA, CredB, CredC, Partial, Foreign}

\* What the transport hands to on_request: whether context.fastmcp_context
\* is set, what its session_id yields (NoSession: it raised or was None),
\* whether get_http_request() gives a request, and the request's query.
In(c, s, h, p) == [has_ctx |-> c, session |-> s, has_http |-> h, params |-> p]
Inputs ==
  { In(TRUE, "s1", TRUE, p) : p \in ParamPool }
  \cup { In(TRUE, "s1", FALSE, NoParams),
         In(TRUE, "s2", TRUE, CredA),
         In(TRUE, NoSession, TRUE, CredA),
         In(FALSE, NoSession, TRUE, CredA),
         In(FALSE, NoSession, TRUE, Partial),
         In(FALSE, NoSession, FALSE, NoParams) }

\* XBRL objects; serial 0 is None, serial -1 a context slot never set.
Xbrl(n, config, t) == [serial |-> n, config |-> config, expires_at |-> t]
None == Xbrl(0, NoParams, 0)
Unset == Xbrl(-1, NoParams, 0)

NoInput == In(FALSE, NoSession, FALSE, NoParams)

VARIABLES
  now,           \* time.time()
  session_data,  \* _session_data: key -> record, domain = keys present
  constructed,   \* how many XBRL objects have been constructed
  running,       \* the task holding the event loop, 0 if none
  pc,            \* each request's position in on_request
  request,       \* each request's input
  state,         \* each request's context state "xbrl"
  lookup,        \* what line 65 read, and when (history)
  path,          \* the branch on_request took (history)
  auth_calls,    \* Authenticator invocations per request (history)
  next_calls,    \* call_next invocations per request (history)
  stores,        \* writes to _session_data per request (history)
  observed,      \* the slot value at each call_next invocation (history)
  caught,        \* exceptions caught by line 108 per request (history)
  issued,        \* the XBRL object the Authenticator returned (history)
  escaped,       \* the exception that left on_request, "" if none
  returned,      \* what on_request returned, "" if it has not
  accepted,      \* per cache key, the last accepted credentials (history)
  hashing,       \* a run of _hash_credentials: input and digest
  tool           \* a run of a tool of index.py: arguments, position, result

\* The gate's variables, and those of the runs of the pure functions.
gate == <<now, session_data, constructed, running, pc, request, state, lookup, path,
          auth_calls, next_calls, stores, observed, caught, issued, escaped,
          returned, accepted>>
aux == <<hashing, tool>>
vars == <<gate, aux>>

\* ------------------------------------------------------------- helpers

\* _get_session_id: the context's session id, or None (implicit return)
\* when there is no context or reading the id failed.
GetSessionId(i) == IF i.has_ctx THEN i.session ELSE NoSession

\* _extract_credentials_from_request: None (the empty mapping here, falsy
\* like None) without a request or without query parameters, else the four
\* fields, each the parameter's value or None.
ExtractCredentials(i) ==
  IF ~i.has_http THEN NoParams
  ELSE IF DOMAIN i.params = {} THEN NoParams
  ELSE [n \in FieldNames |-> IF n \in DOMAIN i.params THEN i.params[n] ELSE NoField]

\* `not config`
NoConfig(config) == DOMAIN config = {}

ModelValidateAnything(config) == TRUE
\* ConfigSchema.model_validate: every field must be a str (None is refused).
ModelValidate(config) ==
  \A n \in FieldNames : n \in DOMAIN config /\ config[n] # NoField

\* hashlib.sha256(...).hexdigest(), taken as injective on its input.
Sha256(s) == <<"sha256", s>>

\* _hash_credentials
HashCredentials(config) ==
  Sha256(config["username"] \o ":" \o config["password"] \o ":"
         \o config["client_id"] \o ":" \o config["client_secret"])

IsXbrlValidAtExpiry(xbrl, t) == xbrl.expires_at >= t
IsXbrlValidForever(xbrl, t) == TRUE
\* _is_xbrl_valid
IsXbrlValid(xbrl, t) == xbrl.expires_at > t

ReuseAnyFingerprint(sd, key, credentials_hash, t) ==
  /\ key \in DOMAIN sd
  /\ sd[key].xbrl_instance # None
  /\ IsXbrlValid(sd[key].xbrl_instance, t)
\* lines 65-77: the session has an entry, its hash is the request's, its
\* instance is truthy and still valid.
Reuse(sd, key, credentials_hash, t) ==
  /\ key \in DOMAIN sd
  /\ sd[key].credentials_hash = credentials_hash
  /\ sd[key].xbrl_instance # None
  /\ IsXbrlValid(sd[key].xbrl_instance, t)

\* What a request finds at line 65, kept as history: whether the key has
\* an entry, whether the entry's hash is the request's, the entry's
\* instance, and the sign of its expiry minus the time of the lookup.
Sgn(n) == IF n > 0 THEN 1 ELSE IF n < 0 THEN -1 ELSE 0
NoLookup ==
  [done |-> FALSE, present |-> FALSE, same_hash |-> FALSE, instance |-> None,
   remaining |-> 0]
Found(sd, key, config, t) ==
  IF key \in DOMAIN sd
  THEN [done |-> TRUE, present |-> TRUE,
        same_hash |-> sd[key].credentials_hash = HashCredentials(config),
        instance |-> sd[key].xbrl_instance,
        remaining |-> Sgn(sd[key].xbrl_instance.expires_at - t)]
  ELSE [done |-> TRUE, present |-> FALSE, same_hash |-> FALSE, instance |-> None,
        remaining |-> 0]

\* _session_data[session_id] = {...}
Store(sd, key, rec) == [k \in DOMAIN sd \cup {key} |-> IF k = key THEN rec ELSE sd[k]]

NoRun == [pc |-> "off"]

GateInit ==
  /\ now = 0
  /\ session_data = [k \in {} |-> 0]
  /\ constructed = 0
  /\ running = 0
  /\ pc = [r \in Req |-> "idle"]
  /\ request = [r \in Req |-> NoInput]
  /\ state = [r \in Req |-> Unset]
  /\ lookup = [r \in Req |-> NoLookup]
  /\ path = [r \in Req |-> "none"]
  /\ auth_calls = [r \in Req |-> 0]
  /\ next_calls = [r \in Req |-> 0]
  /\ stores = [r \in Req |-> 0]
  /\ observed = [r \in Req |-> <<>>]
  /\ caught = [r \in Req |-> <<>>]
  /\ issued = [r \in Req |-> None]
  /\ escaped = [r \in Req |-> ""]
  /\ returned = [r \in Req |-> ""]
  /\ accepted = [k \in {} |-> 0]

Init == GateInit /\ hashing = NoRun /\ tool = NoRun

Tick == now < MaxTime /\ now' = now + 1 /\ UNCHANGED <<session_data, constructed, running,
          pc, request, state, lookup, path, auth_calls, next_calls, stores,
          observed, caught, issued, escaped, returned, accepted, aux>>

\* ------------------------------------------------- on_request, piecewise

\* A task starts when the loop is free; requests are numbered in the order
\* in which they start.
Arrive(r, i) ==
  /\ pc[r] = "idle"
  /\ running = 0
  /\ \A q \in Req : q < r => pc[q] # "idle"
  /\ request' = [request EXCEPT ![r] = i]

\* context.fastmcp_context.set_state("xbrl", v), guarded by
\* `if context.fastmcp_context:`; Slot is what the downstream handler finds.
SetState(r, i, v) == state' = [state EXCEPT ![r] = IF i.has_ctx THEN v ELSE @]
Slot(i, v) == IF i.has_ctx THEN v ELSE Unset

ProceedUnpublished(r, i, v, to) ==
  /\ state' = state
  /\ pc' = [pc EXCEPT ![r] = to]
  /\ next_calls' = [next_calls EXCEPT ![r] = @ + 1]
  /\ observed' = [observed EXCEPT ![r] = Append(@, state[r])]
  /\ escaped' = escaped
  /\ returned' = returned
\* set_state followed by `return await call_next(context)`: the slot is
\* written, the downstream handler is invoked and the task suspends in it.
Proceed(r, i, v, to) ==
  /\ SetState(r, i, v)
  /\ pc' = [pc EXCEPT ![r] = to]
  /\ next_calls' = [next_calls EXCEPT ![r] = @ + 1]
  /\ observed' = [observed EXCEPT ![r] = Append(@, Slot(i, v))]
  /\ escaped' = escaped
  /\ returned' = returned

ExceptHandlerKeepsSlot(r, i, exc) ==
  /\ caught' = [caught EXCEPT ![r] = Append(@, exc)]
  /\ Proceed(r, i, state[r], "handler_call_next")
ExceptHandlerReraises(r, i, exc) ==
  /\ caught' = [caught EXCEPT ![r] = Append(@, exc)]
  /\ SetState(r, i, None)
  /\ pc' = [pc EXCEPT ![r] = "raised"]
  /\ escaped' = [escaped EXCEPT ![r] = exc]
  /\ UNCHANGED <<next_calls, observed, returned>>
\* lines 108-114: `except Exception`, publish None, call_next again.
ExceptHandler(r, i, exc) ==
  /\ caught' = [caught EXCEPT ![r] = Append(@, exc)]
  /\ Proceed(r, i, None, "handler_call_next")

\* lines 50-58: no credentials offered.
EnterNoCredentials(r) ==
  \E i \in Inputs :
    /\ Arrive(r, i)
    /\ NoConfig(ExtractCredentials(i))
    /\ path' = [path EXCEPT ![r] = "nocreds"]
    /\ Proceed(r, i, None, "call_next")
    /\ UNCHANGED <<aux, now, session_data, constructed, running, lookup, auth_calls,
                   stores, caught, issued, accepted>>

\* lines 50-61, 108-114: model_validate raises ValidationError.
EnterInvalid(r) ==
  \E i \in Inputs :
    /\ Arrive(r, i)
    /\ ~NoConfig(ExtractCredentials(i))
    /\ ~ModelValidate(ExtractCredentials(i))
    /\ path' = [path EXCEPT ![r] = "invalid"]
    /\ ExceptHandler(r, i, "ValidationError")
    /\ UNCHANGED <<aux, now, session_data, constructed, running, lookup, auth_calls,
                   stores, issued, accepted>>

\* lines 50-79, 98-106: the cached instance is reused.
EnterReuse(r) ==
  \E i \in Inputs :
    LET config == ExtractCredentials(i)
        key == GetSessionId(i)
    IN /\ Arrive(r, i)
       /\ ~NoConfig(config) /\ ModelValidate(config)
       /\ Reuse(session_data, key, HashCredentials(config), now)
       /\ lookup' = [lookup EXCEPT ![r] = Found(session_data, key, config, now)]
       /\ path' = [path EXCEPT ![r] = "reuse"]
       /\ Proceed(r, i, session_data[key].xbrl_instance, "call_next")
       /\ UNCHANGED <<aux, now, session_data, constructed, running, auth_calls, stores,
                      caught, issued, accepted>>

AwaitAuthenticateSuspends(r) == 0
\* `await self._authenticate_user(config)`: who holds the event loop while
\* the call is made.  The coroutine awaits nothing, so the caller does.
AwaitAuthenticate(r) == r

\* lines 50-87: no reusable instance; the task goes on to line 88.
EnterMiss(r) ==
  \E i \in Inputs :
    LET config == ExtractCredentials(i)
        key == GetSessionId(i)
    IN /\ Arrive(r, i)
       /\ ~NoConfig(config) /\ ModelValidate(config)
       /\ ~Reuse(session_data, key, HashCredentials(config), now)
       /\ lookup' = [lookup EXCEPT ![r] = Found(session_data, key, config, now)]
       /\ pc' = [pc EXCEPT ![r] = "auth"]
       /\ running' = AwaitAuthenticate(r)
       /\ UNCHANGED <<aux, now, session_data, constructed, state, path, auth_calls,
                      next_calls, stores, observed, caught, issued, escaped,
                      returned, accepted>>

\* The task at line 88 runs when it holds the loop or the loop is free.
AuthTask(r) == pc[r] = "auth" /\ running \in {0, r}

StoreOtherKey(sd, key, rec) ==
  Store(sd, IF key = "s1" THEN "s2" ELSE "s1", rec)
StoreStaleHash(sd, key, rec) ==
  Store(sd, key, IF key \in DOMAIN sd
                 THEN [rec EXCEPT !.credentials_hash = sd[key].credentials_hash]
                 ELSE rec)
StoreDropsOthers(sd, key, rec) == [k \in {key} |-> rec]
\* lines 89-93
StoreRecord(sd, key, rec) == Store(sd, key, rec)

\* lines 88-106: XBRL(...) returns an instance with its expiry; the record
\* is stored, the instance published and the downstream handler called.
AuthenticateOk(r) ==
  LET i == request[r]
      config == ExtractCredentials(i)
      key == GetSessionId(i)
      h == Xbrl(constructed + 1, config, now + TokenTTL)
  IN /\ AuthTask(r)
     /\ constructed' = constructed + 1
     /\ auth_calls' = [auth_calls EXCEPT ![r] = @ + 1]
     /\ issued' = [issued EXCEPT ![r] = h]
     /\ accepted' = Store(accepted, key, [config |-> config, xbrl_instance |-> h])
     /\ session_data' = StoreRecord(session_data, key,
                          [xbrl_instance |-> h,
                           credentials_hash |-> HashCredentials(config),
                           created_at |-> now])
     /\ stores' = [stores EXCEPT ![r] =
                     IF session_data' # session_data THEN @ + 1 ELSE @]
     /\ path' = [path EXCEPT ![r] = "authok"]
     /\ running' = 0
     /\ Proceed(r, i, h, "call_next")
     /\ UNCHANGED <<aux, now, request, lookup, caught>>

AuthenticateFailRetries(r) ==
  /\ AuthTask(r)
  /\ auth_calls' = [auth_calls EXCEPT ![r] = @ + 1]
  /\ UNCHANGED <<aux, now, session_data, constructed, running, pc, request, state,
                 lookup, path, next_calls, stores, observed, caught, issued,
                 escaped, returned, accepted>>
\* lines 88, 223-226, 108-114: XBRL(...) raises; _authenticate_user turns
\* it into ValueError, which line 108 catches.
AuthenticateFail(r) ==
  /\ AuthTask(r)
  /\ auth_calls' = [auth_calls EXCEPT ![r] = @ + 1]
  /\ path' = [path EXCEPT ![r] = "authfail"]
  /\ running' = 0
  /\ ExceptHandler(r, request[r], "ValueError")
  /\ UNCHANGED <<aux, now, session_data, constructed, request, lookup, stores, issued,
                 accepted>>

\* What the downstream handler returns: a value on_request does not look
\* into.
HandlerResult == "result"

ReturnNothing(result) == "None"
\* `return await call_next(context)`
Return(result) == result

\* on_request is over for r: its context, its locals and the history kept
\* about it go away.
Finish(r, how, exc, result) ==
  /\ pc' = [pc EXCEPT ![r] = how]
  /\ escaped' = [escaped EXCEPT ![r] = exc]
  /\ returned' = [returned EXCEPT ![r] = result]
  /\ request' = [request EXCEPT ![r] = NoInput]
  /\ state' = [state EXCEPT ![r] = Unset]
  /\ lookup' = [lookup EXCEPT ![r] = NoLookup]
  /\ path' = [path EXCEPT ![r] = "none"]
  /\ auth_calls' = [auth_calls EXCEPT ![r] = 0]
  /\ next_calls' = [next_calls EXCEPT ![r] = 0]
  /\ stores' = [stores EXCEPT ![r] = 0]
  /\ observed' = [observed EXCEPT ![r] = <<>>]
  /\ caught' = [caught EXCEPT ![r] = <<>>]
  /\ issued' = [issued EXCEPT ![r] = None]

\* The downstream handler returns: on_request returns its result.
DownstreamReturn(r) ==
  /\ pc[r] \in {"call_next", "handler_call_next"}
  /\ running = 0
  /\ Finish(r, "done", "", Return(HandlerResult))
  /\ UNCHANGED <<aux, now, session_data, constructed, running, accepted>>

\* The downstream handler raises at line 58 or 106, inside the try: line
\* 108 catches it, publishes None and calls the handler again.
DownstreamRaise(r) ==
  /\ pc[r] = "call_next"
  /\ running = 0
  /\ ExceptHandler(r, request[r], "Downstream")
  /\ UNCHANGED <<aux, now, session_data, constructed, running, request, lookup, path,
                 auth_calls, stores, issued, accepted>>

\* The downstream handler raises at line 114, outside the try: the
\* exception leaves on_request.
HandlerDownstreamRaise(r) ==
  /\ pc[r] = "handler_call_next"
  /\ running = 0
  /\ Finish(r, "raised", "Downstream", "")
  /\ UNCHANGED <<aux, now, session_data, constructed, running, accepted>>

Next ==
  \/ Tick
  \/ \E r \in Req : EnterNoCredentials(r)
  \/ \E r \in Req : EnterInvalid(r)
  \/ \E r \in Req : EnterReuse(r)
  \/ \E r \in Req : EnterMiss(r)
  \/ \E r \in Req : AuthenticateOk(r)
  \/ \E r \in Req : AuthenticateFail(r)
  \/ \E r \in Req : DownstreamReturn(r)
  \/ \E r \in Req : DownstreamRaise(r)
  \/ \E r \in Req : HandlerDownstreamRaise(r)

Spec == Init /\ [][Next]_vars

\* --------------------------------------------- _hash_credentials, by itself

\* Credential fields are the non-empty strings of at most MaxFieldLen
\* characters over a letter and the separator.
MaxFieldLen == 2
Alphabet == {"a", ":"}
RECURSIVE StringsOfLen(_)
StringsOfLen(n) ==
  IF n = 1 THEN Alphabet
  ELSE {s \o c : s \in StringsOfLen(n - 1), c \in Alphabet}
FieldStrings == UNION {StringsOfLen(n) : n \in 1..MaxFieldLen}
CredentialSets == [FieldNames -> FieldStrings]

HashInit ==
  /\ GateInit
  /\ tool = NoRun
  /\ hashing \in {[pc |-> "call", config |-> c] : c \in CredentialSets}

\* self._hash_credentials(config)
HashCall ==
  /\ hashing.pc = "call"
  /\ hashing' = [pc |-> "return", config |-> hashing.config,
                 digest |-> HashCredentials(hashing.config)]
  /\ UNCHANGED <<gate, tool>>

HashNext == HashCall

HashSpec == HashInit /\ [][HashNext]_vars

\* ------------------------------------------------------ the tools of index.py

\* stop_after_attempt(5)
StopAfterAttempt == 5

\* What a caller may pass as `parameters` or `sort`: None, a dict, a string
\* holding a JSON object, a string holding other JSON, a string that is not
\* JSON, a value of another type.
ArgKinds == {"None", "dict", "json_dict", "json_list", "not_json", "int"}

\* validate_and_convert_parameters: the dict or None it returns, or the
\* ValueError it raises.
ValidateAndConvert(a) ==
  CASE a = "None" -> [raises |-> FALSE, value |-> "None"]
    [] a = "dict" -> [raises |-> FALSE, value |-> "dict"]
    [] a = "json_dict" -> [raises |-> FALSE, value |-> "dict"]
    [] a = "json_list" -> [raises |-> TRUE, value |-> "must be a dictionary"]
    [] a = "not_json" -> [raises |-> TRUE, value |-> "Invalid JSON"]
    [] OTHER -> [raises |-> TRUE, value |-> "must be a dict or JSON string"]

AuthRequired == "ValueError: XBRL authentication required"
RetriesFailed == "ValueError: Failed to fetch XBRL data after 5 retries"

\* A call of a tool: the handle in the slot (whether it is not None), the
\* arguments, and what the run has done so far: external calls made, the
\* outcome of each, the result returned or the exception raised.
ToolRun(name, xbrl, fields, parameters, sort) ==
  [pc |-> "start", name |-> name, xbrl |-> xbrl, fields |-> fields,
   parameters |-> parameters, sort |-> sort,
   attempts |-> 0, log |-> <<>>, result |-> <<>>, error |-> ""]

ToolInit ==
  /\ GateInit
  /\ hashing = NoRun
  /\ tool \in {ToolRun("query", x, f, p, s) :
                 x \in BOOLEAN, f \in BOOLEAN, p \in ArgKinds, s \in ArgKinds}
            \cup {ToolRun("list_xbrl_endpoints", x, TRUE, "None", "None") :
                    x \in BOOLEAN}

Raise(e) == tool' = [tool EXCEPT !.pc = "raised", !.error = e]

\* query, lines 192-224: the checks before the first external call.
QueryChecks ==
  /\ tool.pc = "start" /\ tool.name = "query"
  /\ IF ~tool.xbrl THEN Raise(AuthRequired)
     ELSE IF ~tool.fields THEN Raise("ValueError: fields are required")
     ELSE IF ValidateAndConvert(tool.parameters).raises
       THEN Raise("ValueError: Parameter validation failed")
     ELSE IF ValidateAndConvert(tool.sort).raises
       THEN Raise("ValueError: Sort validation failed")
     ELSE tool' = [tool EXCEPT !.pc = "attempt"]
  /\ UNCHANGED <<gate, hashing>>

StopAfterOneMore(n) == n >= StopAfterAttempt + 1
\* stop=stop_after_attempt(5), asked after the n-th attempt has raised
Stop(n) == n >= StopAfterAttempt

\* xbrl.query(...) returns: query_with_retry returns its result.
QueryAttemptReturns ==
  /\ tool.pc = "attempt"
  /\ tool' = [tool EXCEPT !.pc = "returned", !.attempts = @ + 1,
                          !.log = Append(@, "returned"),
                          !.result = <<"DataFrame", tool.attempts + 1>>]
  /\ UNCHANGED <<gate, hashing>>

\* xbrl.query(...) raises: another attempt after the wait, or after the last
\* attempt the exception is reraised and line 247 turns it into ValueError.
QueryAttemptRaises ==
  /\ tool.pc = "attempt"
  /\ IF Stop(tool.attempts + 1)
     THEN tool' = [tool EXCEPT !.pc = "raised", !.attempts = @ + 1,
                               !.log = Append(@, "raised"),
                               !.error = RetriesFailed]
     ELSE tool' = [tool EXCEPT !.pc = "wait", !.attempts = @ + 1,
                               !.log = Append(@, "raised")]
  /\ UNCHANGED <<gate, hashing>>

\* wait=wait_exponential(multiplier=1, min=2, max=10): the sleep is over.
QueryWaitOver ==
  /\ tool.pc = "wait"
  /\ tool' = [tool EXCEPT !.pc = "attempt"]
  /\ UNCHANGED <<gate, hashing>>

\* list_xbrl_endpoints, lines 299-306
ListChecks ==
  /\ tool.pc = "start" /\ tool.name = "list_xbrl_endpoints"
  /\ IF ~tool.xbrl THEN Raise(AuthRequired)
     ELSE tool' = [tool EXCEPT !.pc = "get"]
  /\ UNCHANGED <<gate, hashing>>

\* lines 308-313: requests.get, then raise_for_status or the JSON body.
ListGetReturns ==
  /\ tool.pc = "get"
  /\ tool' = [tool EXCEPT !.pc = "returned", !.attempts = @ + 1,
                          !.log = Append(@, "returned"),
                          !.result = <<"json", 1>>]
  /\ UNCHANGED <<gate, hashing>>
ListGetRaises ==
  /\ tool.pc = "get"
  /\ tool' = [tool EXCEPT !.pc = "raised", !.attempts = @ + 1,
                          !.log = Append(@, "raised"),
                          !.error = "HTTPError"]
  /\ UNCHANGED <<gate, hashing>>

ToolNext ==
  \/ QueryChecks
  \/ QueryAttemptReturns
  \/ QueryAttemptRaises
  \/ QueryWaitOver
  \/ ListChecks
  \/ ListGetReturns
  \/ ListGetRaises

ToolSpec == ToolInit /\ [][ToolNext]_vars

\* A tool call is synchronous code with a timeout on every external call:
\* a step that can be taken is taken.
ToolFairSpec == ToolSpec /\ WF_vars(ToolNext)

\* ------------------------------------------------------------- claims

\* Requests whose gate has decided and whose downstream handler is running.
InFlight(r) == pc[r] \in {"call_next", "handler_call_next"}
KeyOf(r) == GetSessionId(request[r])
ConfigOf(r) == ExtractCredentials(request[r])
\* The validity predicate of the specification, on what the lookup found.
IsReusable(l) == l.present /\ l.same_hash /\ l.remaining > 0
\* r's store put its record under r's key, and the entry is that record
\* unless a later authentication has replaced it.
StoredBy(r) ==
  /\ KeyOf(r) \in DOMAIN session_data
  /\ session_data[KeyOf(r)].xbrl_instance.serial >= issued[r].serial
  /\ session_data[KeyOf(r)].xbrl_instance = issued[r] =>
       session_data[KeyOf(r)] =
         [xbrl_instance |-> issued[r],
          credentials_hash |-> HashCredentials(ConfigOf(r)),
          created_at |-> issued[r].expires_at - TokenTTL]

\* C1: a request with valid credentials reuses the cached instance of its
\* session exactly when the entry's hash is the hash of the request's
\* credentials and the instance's expiry is strictly later than the time
\* of the lookup; a request that reuses does not call the Authenticator,
\* does not write the cache and publishes the instance it found.
C1_ReuseIffReusable ==
  \A r \in Req :
    lookup[r].done =>
      /\ IsReusable(lookup[r]) <=> path[r] = "reuse"
      /\ IsReusable(lookup[r]) =>
           /\ pc[r] # "auth"
           /\ auth_calls[r] = 0
           /\ stores[r] = 0
           /\ issued[r] = None
           /\ observed[r][1] = Slot(request[r], lookup[r].instance)
\* A request reuses, at a later time than the issue, the instance another
\* request obtained.
C1_Witness ==
  \E r \in Req :
    /\ path[r] = "reuse" /\ pc[r] = "call_next"
    /\ request[r].has_ctx
    /\ state[r] = lookup[r].instance
    /\ state[r].serial > 0
    /\ state[r].expires_at - TokenTTL < now

\* C2: a request that finds a record whose expiry is at or before the time
\* of the lookup never reuses it, whether or not the hash matches; it calls
\* the Authenticator once, and when that call returns an instance the
\* session's entry is overwritten with the new record.
C2_ExpiredNeverReused ==
  \A r \in Req :
    (lookup[r].done /\ lookup[r].present /\ lookup[r].remaining <= 0) =>
      /\ path[r] # "reuse"
      /\ pc[r] # "auth" => auth_calls[r] = 1
      /\ path[r] = "authok" =>
           /\ stores[r] = 1
           /\ issued[r].serial > lookup[r].instance.serial
           /\ StoredBy(r)
\* A request found its own credentials' record expired and replaced it.
C2_Witness ==
  \E r \in Req :
    /\ lookup[r].present /\ lookup[r].same_hash /\ lookup[r].remaining <= 0
    /\ path[r] = "authok"
    /\ session_data[KeyOf(r)].xbrl_instance = issued[r]
    /\ issued[r].expires_at > lookup[r].instance.expires_at

\* C3: a request that finds a record whose hash differs from the hash of
\* its credentials does not reuse it; it calls the Authenticator once, and
\* when that call returns an instance the session's entry is overwritten
\* with a record carrying the new hash.
C3_RotationReauthenticates ==
  \A r \in Req :
    (lookup[r].done /\ lookup[r].present /\ ~lookup[r].same_hash) =>
      /\ path[r] # "reuse"
      /\ pc[r] # "auth" => auth_calls[r] = 1
      /\ path[r] = "authok" =>
           /\ stores[r] = 1
           /\ issued[r].config = ConfigOf(r)
           /\ issued[r].serial > lookup[r].instance.serial
           /\ StoredBy(r)
\* A request with other credentials replaced a record that was still valid.
C3_Witness ==
  \E r \in Req :
    /\ lookup[r].present /\ ~lookup[r].same_hash /\ lookup[r].remaining > 0
    /\ path[r] = "authok"
    /\ session_data[KeyOf(r)].credentials_hash = HashCredentials(ConfigOf(r))
    /\ session_data[KeyOf(r)].xbrl_instance = issued[r]

\* C4: when the Authenticator fails, None is published under "xbrl" (into
\* the request's context, when it has one) and the downstream handler is
\* invoked all the same: the failure does not end the request.
C4_AuthFailureProceeds ==
  \A r \in Req :
    path[r] = "authfail" =>
      /\ pc[r] = "handler_call_next"
      /\ escaped[r] = ""
      /\ request[r].has_ctx => state[r] = None
      /\ next_calls[r] = 1
      /\ observed[r] = <<Slot(request[r], None)>>
C4_Witness ==
  \E r \in Req :
    /\ path[r] = "authfail" /\ auth_calls[r] = 1
    /\ request[r].has_ctx /\ state[r] = None
    /\ next_calls[r] = 1

\* C5: a request without an HTTP request or without query parameters gets
\* None published (into its context, when it has one), the Authenticator
\* is not called for it, and the downstream handler is invoked.
C5_NoCredentialsProceeds ==
  \A r \in Req :
    (InFlight(r) /\ (~request[r].has_http \/ DOMAIN request[r].params = {})) =>
      /\ request[r].has_ctx => state[r] = None
      /\ auth_calls[r] = 0
      /\ ~lookup[r].done
      /\ next_calls[r] >= 1
      /\ \A k \in 1..Len(observed[r]) : observed[r][k] = Slot(request[r], None)
C5_Witness ==
  \E q \in Req, r \in Req :
    /\ pc[q] = "call_next" /\ pc[r] = "call_next"
    /\ ~request[q].has_http
    /\ request[r].has_http /\ DOMAIN request[r].params = {}
    /\ state[q] = None /\ state[r] = None
    /\ next_calls[q] = 1 /\ next_calls[r] = 1

\* A query that has parameters but lacks one of the four credential fields
\* (parse_qs drops a blank value, so an empty field is a missing one).
Malformed(i) ==
  /\ i.has_http
  /\ DOMAIN i.params # {}
  /\ \E n \in FieldNames : n \notin DOMAIN i.params

\* C6 as stated: a malformed credential set is surfaced as a validation
\* error and is not turned into the unauthenticated outcome, so the
\* downstream handler never runs for it with None published.
C6_Original ==
  \A r \in Req :
    Malformed(request[r]) =>
      ~(InFlight(r) /\ next_calls[r] > 0 /\ observed[r][1] = Slot(request[r], None))
\* C6 as amended: a malformed credential set raises a validation error
\* before any hash, lookup or Authenticator call, and line 108 catches it:
\* None is published and the downstream handler is invoked, as for any
\* other failure.
C6_ValidationFailureDegrades ==
  \A r \in Req :
    (pc[r] # "idle" /\ Malformed(request[r])) =>
      /\ path[r] = "invalid"
      /\ pc[r] = "handler_call_next"
      /\ caught[r] = <<"ValidationError">>
      /\ escaped[r] = ""
      /\ auth_calls[r] = 0 /\ stores[r] = 0 /\ ~lookup[r].done
      /\ request[r].has_ctx => state[r] = None
      /\ next_calls[r] = 1
C6_Witness ==
  \E r \in Req :
    /\ Malformed(request[r])
    /\ DOMAIN request[r].params \cap FieldNames # {}
    /\ caught[r] = <<"ValidationError">>
    /\ request[r].has_ctx /\ state[r] = None
    /\ pc[r] = "handler_call_next"

GateExceptions == {"ValidationError", "ValueError"}
\* C7: no exception of the gate's own steps leaves on_request: each one is
\* caught at line 108, None is published and the downstream handler is
\* invoked; the only exception on_request ends with is the downstream
\* handler's.
C7_GateNeverRaises ==
  \A r \in Req :
    /\ escaped[r] \notin GateExceptions
    /\ pc[r] = "raised" <=> escaped[r] = "Downstream"
    /\ path[r] \in {"invalid", "authfail"} =>
         /\ Len(caught[r]) = 1 /\ caught[r][1] \in GateExceptions
         /\ pc[r] = "handler_call_next"
         /\ request[r].has_ctx => state[r] = None
         /\ next_calls[r] = 1
    /\ \A k \in 1..Len(caught[r]) :
         caught[r][k] \in GateExceptions => path[r] \in {"invalid", "authfail"}
\* Two requests in flight, one after a validation error, one after an
\* Authenticator failure, both with None published and the handler invoked.
C7_Witness ==
  \E q \in Req, r \in Req :
    /\ caught[q] = <<"ValidationError">> /\ caught[r] = <<"ValueError">>
    /\ pc[q] = "handler_call_next" /\ pc[r] = "handler_call_next"
    /\ request[q].has_ctx /\ state[q] = None
    /\ request[r].has_ctx /\ state[r] = None

\* C8 as stated: a request whose session id is not resolved never writes
\* the cache and never reuses a cached instance.
C8_UnresolvedSessionNeverCached ==
  \A r \in Req :
    (pc[r] # "idle" /\ lookup[r].done /\ KeyOf(r) = NoSession) =>
      /\ stores[r] = 0
      /\ path[r] # "reuse"
      /\ NoSession \notin DOMAIN session_data

\* C9: every cache entry is the record of the credentials the
\* Authenticator accepted last for that key: its instance is the one
\* returned then and its hash is the hash of those credentials.
C9_CacheIsLastAccepted ==
  /\ DOMAIN session_data = DOMAIN accepted
  /\ \A k \in DOMAIN session_data :
       /\ session_data[k].xbrl_instance = accepted[k].xbrl_instance
       /\ session_data[k].xbrl_instance.config = accepted[k].config
       /\ session_data[k].credentials_hash = HashCredentials(accepted[k].config)
\* Two requests of one session with different credentials are in flight,
\* both accepted; the entry is the later one's.
C9_Witness ==
  \E q \in Req, r \in Req :
    /\ InFlight(q) /\ InFlight(r)
    /\ path[q] = "authok" /\ path[r] = "authok"
    /\ KeyOf(q) = KeyOf(r) /\ KeyOf(q) \in Sessions
    /\ ConfigOf(q) # ConfigOf(r)
    /\ issued[q].serial < issued[r].serial
    /\ session_data[KeyOf(r)].xbrl_instance = issued[r]
    /\ accepted[KeyOf(r)].config = ConfigOf(r)

\* C10 as stated: the gate is suspended at the authentication call, so
\* while one request is at line 88 the event loop is free for another
\* request's gate.
C10_Original == \A r \in Req : pc[r] = "auth" => running # r
\* C10 as amended: the cache has no lock, but a request between its lookup
\* and its store holds the event loop, so of two requests of one key that
\* both stored, the later one looked up after the earlier one's store (it
\* found that record or a later one, never an absent entry); an entry is
\* always one whole record of one authentication.
C10_LookupToStoreAtomic ==
  /\ \A r \in Req : pc[r] = "auth" => running = r
  /\ \A q \in Req, r \in Req :
       (/\ path[q] = "authok" /\ path[r] = "authok"
        /\ KeyOf(q) = KeyOf(r)
        /\ issued[q].serial < issued[r].serial) =>
         /\ lookup[r].present
         /\ lookup[r].instance.serial >= issued[q].serial
  /\ \A k \in DOMAIN session_data :
       /\ session_data[k].xbrl_instance.serial > 0
       /\ session_data[k].credentials_hash =
            HashCredentials(session_data[k].xbrl_instance.config)
       /\ session_data[k].created_at + TokenTTL =
            session_data[k].xbrl_instance.expires_at
\* Duplicate calls are reachable across an expiry: two requests of one
\* session with the same credentials are in flight, both authenticated and
\* stored, the later replacing the record it found expired.
C10_Witness ==
  \E q \in Req, r \in Req :
    /\ InFlight(q) /\ InFlight(r)
    /\ path[q] = "authok" /\ path[r] = "authok"
    /\ KeyOf(q) = KeyOf(r) /\ ConfigOf(q) = ConfigOf(r)
    /\ lookup[r].instance = issued[q] /\ lookup[r].remaining <= 0
    /\ session_data[KeyOf(r)].xbrl_instance = issued[r]

\* C11 as stated: two Credential Sets have the same fingerprint only if
\* they are equal field by field (the digest being injective, the
\* concatenation of the four fields with ":" is).
C11_FingerprintInjective ==
  hashing.pc = "return" =>
    \A c \in CredentialSets :
      HashCredentials(c) = hashing.digest <=> c = hashing.config

\* The value the gate resolved for r: the instance found, the instance
\* issued, or None.
Resolved(r) ==
  CASE path[r] = "reuse" -> lookup[r].instance
    [] path[r] = "authok" -> issued[r]
    [] OTHER -> None

\* C12: at every invocation of the downstream handler the slot "xbrl" of
\* the request's context (when it has one) already holds what the gate
\* resolved, the instance or None, for the first invocation and None for
\* the invocation of line 114; on_request returns what the downstream
\* handler returned, and returns nothing else.
C12_PublishedThenReturned ==
  \A r \in Req :
    /\ InFlight(r) =>
         /\ Len(observed[r]) = next_calls[r]
         /\ next_calls[r] >= 1
         /\ observed[r][1] =
              Slot(request[r], IF Len(caught[r]) > 0 /\ caught[r][1] \in GateExceptions
                               THEN None ELSE Resolved(r))
         /\ \A k \in 2..Len(observed[r]) : observed[r][k] = Slot(request[r], None)
         /\ state[r] = observed[r][Len(observed[r])]
    /\ pc[r] = "done" <=> returned[r] = HandlerResult
    /\ pc[r] # "done" => returned[r] = ""
\* One request has returned the handler's result, another is in its
\* handler with the instance it was issued published.
C12_Witness ==
  \E q \in Req, r \in Req :
    /\ pc[q] = "done" /\ returned[q] = HandlerResult
    /\ pc[r] = "call_next" /\ path[r] = "authok"
    /\ request[r].has_ctx
    /\ state[r] = issued[r] /\ observed[r] = <<issued[r]>>

\* C13 as stated, for the gate: a handler that was invoked with None
\* published (a tool reading it raises at once, without an external call)
\* is not invoked again for the same request.
C13_NullReadNotRerun ==
  \A r \in Req :
    (/\ InFlight(r) /\ request[r].has_ctx
     /\ observed[r][1] = None) =>
      next_calls[r] = 1

\* C14: an execution of on_request calls the Authenticator at most once:
\* not at all when it offers no credentials, fails validation or reuses,
\* once when it misses, also when its downstream handler is invoked a
\* second time.
C14_AuthenticatorAtMostOnce ==
  /\ \A r \in Req :
       /\ auth_calls[r] <= 1
       /\ path[r] \in {"nocreds", "invalid", "reuse"} => auth_calls[r] = 0
       /\ path[r] \in {"authok", "authfail"} => auth_calls[r] = 1
       /\ pc[r] = "auth" => auth_calls[r] = 0
       /\ issued[r] # None <=> path[r] = "authok"
  /\ constructed <= Cardinality({r \in Req : pc[r] \notin {"idle", "auth"}})
\* One request authenticated, its handler raised and was invoked again;
\* another reuses the instance the first obtained.
C14_Witness ==
  \E q \in Req, r \in Req :
    /\ path[q] = "authok" /\ auth_calls[q] = 1 /\ next_calls[q] = 2
    /\ path[r] = "reuse" /\ auth_calls[r] = 0 /\ pc[r] = "call_next"
    /\ lookup[r].instance = issued[q]
    /\ constructed = 1

\* C15: the cache has an entry exactly for the keys for which an
\* authentication has succeeded (so no entry is ever removed); each entry
\* is one whole record of one authentication: the instance returned, the
\* hash of the credentials it was returned for and the time of the store.
C15_EntriesAreWholeRecords ==
  /\ DOMAIN session_data = DOMAIN accepted
  /\ Cardinality(DOMAIN session_data) <= constructed
  /\ \A k \in DOMAIN session_data :
       /\ DOMAIN session_data[k] = {"xbrl_instance", "credentials_hash", "created_at"}
       /\ session_data[k].xbrl_instance = accepted[k].xbrl_instance
       /\ session_data[k].xbrl_instance # None
       /\ session_data[k].xbrl_instance.serial \in 1..constructed
       /\ session_data[k].credentials_hash = HashCredentials(accepted[k].config)
       /\ session_data[k].created_at \in 0..now
       /\ session_data[k].created_at =
            session_data[k].xbrl_instance.expires_at - TokenTTL
  /\ \A k \in DOMAIN session_data, l \in DOMAIN session_data :
       k # l => session_data[k].xbrl_instance # session_data[l].xbrl_instance
\* The entry of a session was replaced by a second authentication: still
\* one key, holding the later record.
C15_Witness ==
  \E k \in DOMAIN session_data :
    /\ DOMAIN session_data = {k}
    /\ constructed = 2
    /\ session_data[k].xbrl_instance.serial = 2
    /\ session_data[k].created_at > 0

\* C16 as stated: the downstream handler is invoked once per execution of
\* on_request, whatever the path.
C16_CallNextOnce ==
  \A r \in Req :
    /\ next_calls[r] <= 1
    /\ InFlight(r) => next_calls[r] = 1

\* C17 as stated: for a request that was authenticated or reuses, the slot
\* holds the instance at every invocation of the downstream handler and
\* for as long as the handler runs.
C17_HandleWhileHandlerRuns ==
  \A r \in Req :
    (InFlight(r) /\ request[r].has_ctx /\ path[r] \in {"authok", "reuse"}) =>
      /\ state[r] = Resolved(r)
      /\ state[r] # None
      /\ \A k \in 1..Len(observed[r]) : observed[r][k] = Resolved(r)

\* C18: a step changes the cache only if it is the successful return of
\* the Authenticator for some request, and then only the entry of that
\* request's key, which becomes the record of the instance issued; no key
\* is removed; the steps that take the no-credentials, validation-failure,
\* reuse and authentication-failure paths leave the cache as it was; what
\* a request reads at line 65 is the entry of its own key.
C18_CacheFrame ==
  [][/\ DOMAIN session_data \subseteq DOMAIN session_data'
     /\ \A k \in DOMAIN session_data' :
          (IF k \in DOMAIN session_data
           THEN session_data'[k] # session_data[k] ELSE TRUE) =>
            \E r \in Req :
              /\ pc[r] = "auth" /\ path'[r] = "authok"
              /\ GetSessionId(request[r]) = k
              /\ session_data'[k].xbrl_instance = issued'[r]
     /\ \A r \in Req :
          (path[r] = "none"
           /\ path'[r] \in {"nocreds", "invalid", "reuse", "authfail"}) =>
            session_data' = session_data
     /\ \A r \in Req :
          (~lookup[r].done /\ lookup'[r].done) =>
            /\ session_data' = session_data
            /\ lookup'[r].present <=>
                 GetSessionId(request'[r]) \in DOMAIN session_data
            /\ lookup'[r].present =>
                 lookup'[r].instance =
                   session_data[GetSessionId(request'[r])].xbrl_instance
    ]_vars
\* Two sessions each hold the record of their own request.
C18_Witness ==
  \E q \in Req, r \in Req :
    /\ path[q] = "authok" /\ path[r] = "authok"
    /\ KeyOf(q) = "s1" /\ KeyOf(r) = "s2"
    /\ DOMAIN session_data = {"s1", "s2"}
    /\ session_data["s1"].xbrl_instance = issued[q]
    /\ session_data["s2"].xbrl_instance = issued[r]

\* C19 as stated: an instance published to a request was constructed with
\* the credentials that request offers, field by field.
C19_HandleForOfferedCredentials ==
  \A r \in Req :
    (InFlight(r) /\ state[r].serial > 0) =>
      state[r].config = ConfigOf(r)

\* A call of query with an instance in the slot and valid arguments.
ValidQuery ==
  /\ tool.pc # "off" /\ tool.name = "query"
  /\ tool.xbrl /\ tool.fields
  /\ ~ValidateAndConvert(tool.parameters).raises
  /\ ~ValidateAndConvert(tool.sort).raises
QueryWithinFive ==
  ValidQuery =>
    /\ tool.attempts <= 5
    /\ tool.attempts = Len(tool.log)
    /\ \A k \in 1..(Len(tool.log) - 1) : tool.log[k] = "raised"
    /\ tool.pc = "returned" =>
         /\ tool.log[Len(tool.log)] = "returned"
         /\ tool.result = <<"DataFrame", tool.attempts>>
         /\ tool.error = ""
    /\ tool.pc = "raised" =>
         /\ tool.attempts = 5
         /\ \A k \in 1..5 : tool.log[k] = "raised"
         /\ tool.error = RetriesFailed
         /\ tool.result = <<>>
    /\ tool.pc \in {"attempt", "wait"} => tool.attempts < 5
\* C20: a valid call of query with an instance makes at most 5 external
\* calls, every one but the last having raised; it returns the result of
\* the one that returned, or after 5 that raised it raises the ValueError
\* of line 248; and every such call ends.
C20_QueryWithinFiveAttempts ==
  /\ []QueryWithinFive
  /\ (ValidQuery /\ tool.pc = "start") ~> (tool.pc \in {"returned", "raised"})
\* Five attempts raised and the call ended with the ValueError.
C20_Witness ==
  /\ ValidQuery
  /\ tool.pc = "raised" /\ tool.attempts = 5
  /\ tool.error = RetriesFailed
====
